---- MODULE Spec2Model ----
(***************************************************************************)
(* A model of fake-switches' configuration model (switch_configuration.py) *)
(* and of the Brocade virtual-interface command processor                  *)
(* (brocade/command_processor/config_virtual_interface.py).                *)
(*                                                                         *)
(* Python values are modelled as follows.                                  *)
(*   - a command line is the tuple `args` of its tokens (strings); Python  *)
(*     indexes it from 0, so Arg(args, i) is args[i];                      *)
(*   - None is the empty tuple and any other value v is <<v>>, so that an  *)
(*     optional attribute never collides with a token;                     *)
(*   - an address is an integer of AddrBits bits, written as one digit; a  *)
(*     CIDR token is "<digit>/<digit>"; netaddr's IPNetwork is the record  *)
(*     [ip, prefixlen];                                                    *)
(*   - a VRRP object is [obj, group_id], obj being its identity;           *)
(*   - an exception leaving a handler is recorded in cmd.raised, with the  *)
(*     mutations made before it kept;                                      *)
(*   - where the identity of a Port or Vlan object matters (add_port,      *)
(*     remove_port, add_vlan, remove_vlan), the objects live in heap and   *)
(*     the lists ports and vlans hold references to them; elsewhere a list *)
(*     holds the objects themselves, each at one place.                    *)
(***************************************************************************)
EXTENDS Integers, Sequences, FiniteSets, TLC

VARIABLES
    ports,   \* switch_configuration.ports: the list of port objects
    vlans,   \* switch_configuration.vlans: the list of VLAN objects
    vrfs,    \* switch_configuration.vrfs: the list of VRF objects
    heap,    \* the Port and Vlan objects that ports and vlans refer to
    mode,    \* per session, the processor on top of its mode stack
    out,     \* the lines the last command wrote
    cmd,     \* the last command: [op, session, port, args, raised]
    ncmds    \* the number of command lines issued, in the runs that bound it

vars == <<ports, vlans, vrfs, heap, mode, out, cmd, ncmds>>

(***************************************************************************)
(* Bounds of the model.                                                    *)
(***************************************************************************)
\* Width of an address in bits (IPv4 has 32).
AddrBits == 2
\* The most IP entries (primary and secondary, over all the ports) the model
\* explores: a command that would leave more of them is not issued.
MaxIps == 3

RECURSIVE Pow2(_)
Pow2(n) == IF n = 0 THEN 1 ELSE 2 * Pow2(n - 1)

Addrs == 0 .. (Pow2(AddrBits) - 1)
PrefixLens == 0 .. AddrBits

\* The command lines name the addresses 0 .. MaxAddr with the prefix lengths
\* 0 .. MaxPrefixLen.
MaxAddr == 2
MaxPrefixLen == 1
\* The most command lines of a run of Spec.
MaxCmds == 5

(***************************************************************************)
(* Python values.                                                          *)
(***************************************************************************)
None == <<>>
Some(v) == <<v>>

\* args[i], Python's index
Arg(args, i) == args[i + 1]

\* kw.startswith(tok)
StartsWith(kw, tok) == Len(tok) <= Len(kw) /\ SubSeq(kw, 1, Len(tok)) = tok

(***************************************************************************)
(* netaddr.                                                                *)
(***************************************************************************)
Digit(c) ==
    CASE c = "0" -> 0 [] c = "1" -> 1 [] c = "2" -> 2 [] c = "3" -> 3
      [] c = "4" -> 4 [] c = "5" -> 5 [] c = "6" -> 6 [] c = "7" -> 7
      [] c = "8" -> 8 [] c = "9" -> 9 [] OTHER -> -1

\* Whether IPNetwork(s) parses; it raises AddrFormatError otherwise.
\* "a" is a host network, "a/l" has the prefix length l.
IPNetworkParses(s) ==
    \/ Len(s) = 1 /\ Digit(s) \in Addrs
    \/ /\ Len(s) = 3
       /\ SubSeq(s, 2, 2) = "/"
       /\ Digit(SubSeq(s, 1, 1)) \in Addrs
       /\ Digit(SubSeq(s, 3, 3)) \in PrefixLens

\* IPNetwork(s): the address keeps its host bits.
IPNetwork(s) ==
    [ip |-> Digit(SubSeq(s, 1, 1)),
     prefixlen |-> IF Len(s) = 3 THEN Digit(SubSeq(s, 3, 3)) ELSE AddrBits]

\* str(IPNetwork)
CidrText(n) == ToString(n.ip) \o "/" \o ToString(n.prefixlen)

HostSize(n) == Pow2(AddrBits - n.prefixlen)
NetFirst(n) == (n.ip \div HostSize(n)) * HostSize(n)
NetLast(n) == NetFirst(n) + HostSize(n) - 1

\* IPAddress in IPNetwork
AddrInNet(a, n) == a \div HostSize(n) = n.ip \div HostSize(n)

\* IPNetwork in IPNetwork: the whole range of m lies in n
NetInNet(m, n) == NetFirst(n) <= NetFirst(m) /\ NetLast(m) <= NetLast(n)

\* IPNetwork == IPNetwork: netaddr compares (first, last), not the host bits
NetEq(m, n) == NetFirst(m) = NetFirst(n) /\ NetLast(m) = NetLast(n)

(***************************************************************************)
(* Sequence helpers (Python list operations).                              *)
(***************************************************************************)
\* The index of the first element of s satisfying P, 0 when there is none:
\* next((x for x in s if P(x)), None), and list.index / list.remove.
FirstIndex(s, P(_)) ==
    IF \E i \in 1 .. Len(s) : P(s[i])
    THEN CHOOSE i \in 1 .. Len(s) : P(s[i]) /\ \A j \in 1 .. (i - 1) : ~P(s[j])
    ELSE 0

\* list.pop(i), i a TLA+ index
RemoveAt(s, i) == SubSeq(s, 1, i - 1) \o SubSeq(s, i + 1, Len(s))

(***************************************************************************)
(* switch_configuration.py: the entities.                                  *)
(***************************************************************************)
\* VRF(name)
VRF(name) == [name |-> name]

\* VRRP(group_id); obj is the identity of the object
VRRP(obj, group_id) == [obj |-> obj, group_id |-> group_id]

\* VlanPort(vlan_id, name): Port.__init__ then VlanPort.__init__
VlanPort(vlan_id, name) ==
    [kind |-> "VlanPort",
     name |-> name,
     description |-> None,
     vrf |-> None,
     vlan_id |-> vlan_id,
     access_group_in |-> None,
     access_group_out |-> None,
     ips |-> <<>>,
     secondary_ips |-> <<>>,
     vrrp_common_authentication |-> None,
     vrrps |-> <<>>]

\* VlanPort.get_vrrp_group(group): the index in port.vrrps, 0 for None
get_vrrp_group(port, group) ==
    FirstIndex(port.vrrps, LAMBDA vrrp : vrrp.group_id = group)

\* VlanPort.add_ip(ip_network)
add_ip(port, ip_network) ==
    LET existing_ip == FirstIndex(port.ips, LAMBDA ip : ip.ip = ip_network.ip)
    IN  IF existing_ip # 0
        THEN \* self.ips[self.ips.index(existing_ip)] = ip_network
             LET i == FirstIndex(port.ips, LAMBDA ip : NetEq(ip, port.ips[existing_ip]))
             IN  [port EXCEPT !.ips[i] = ip_network]
        ELSE [port EXCEPT !.ips = Append(@, ip_network)]

\* VlanPort.add_secondary_ip(ip_network)
add_secondary_ip(port, ip_network) ==
    [port EXCEPT !.secondary_ips = Append(@, ip_network)]

\* VlanPort.remove_ip(ip_network): pops the first primary of that address
remove_ip(port, ip_network) ==
    LET i == FirstIndex(port.ips, LAMBDA ip : ip.ip = ip_network.ip)
    IN  IF i # 0 THEN [port EXCEPT !.ips = RemoveAt(@, i)] ELSE port

\* VlanPort.remove_secondary_ip(deleting_ip): list.remove(ip) takes out the
\* first element equal to ip, and netaddr's equality is NetEq
remove_secondary_ip(port, deleting_ip) ==
    LET k == FirstIndex(port.secondary_ips, LAMBDA ip : ip.ip = deleting_ip.ip)
    IN  IF k # 0
        THEN LET i == FirstIndex(port.secondary_ips,
                                 LAMBDA ip : NetEq(ip, port.secondary_ips[k]))
             IN  [port EXCEPT !.secondary_ips = RemoveAt(@, i)]
        ELSE port

(***************************************************************************)
(* switch_configuration.py: SwitchConfiguration.                           *)
(***************************************************************************)
\* get_port_and_ip_by_ip(ip): [port, ip] are the index of the port in
\* all_ports and the index of the network in its ips; (None, None) is 0, 0
get_port_and_ip_by_ip(all_ports, ip_string) ==
    LET p == FirstIndex(all_ports,
                        LAMBDA port : /\ port.kind = "VlanPort"
                                      /\ \E k \in 1 .. Len(port.ips) :
                                            AddrInNet(ip_string, port.ips[k]))
    IN  IF p # 0
        THEN [port |-> p,
              ip |-> FirstIndex(all_ports[p].ips, LAMBDA ip : AddrInNet(ip_string, ip))]
        ELSE [port |-> 0, ip |-> 0]

\* get_vrf(name): the index in the VRF list, 0 for None
get_vrf(all_vrfs, name) == FirstIndex(all_vrfs, LAMBDA vrf : vrf.name = name)

\* add_vrf(vrf)
add_vrf(all_vrfs, vrf) ==
    IF get_vrf(all_vrfs, vrf.name) = 0 THEN Append(all_vrfs, vrf) ELSE all_vrfs

\* remove_vrf that forgets the ports: the VRF leaves the collection and the
\* ports keep their reference to it
remove_vrf_keeping_references(all_vrfs, all_ports, name) ==
    LET vrf == get_vrf(all_vrfs, name)
    IN  IF vrf # 0
        THEN [vrfs |-> RemoveAt(all_vrfs, vrf), ports |-> all_ports]
        ELSE [vrfs |-> all_vrfs, ports |-> all_ports]

\* remove_vrf(name): [vrfs, ports] after the call
remove_vrf(all_vrfs, all_ports, name) ==
    LET vrf == get_vrf(all_vrfs, name)
    IN  IF vrf # 0
        THEN [vrfs |-> RemoveAt(all_vrfs, vrf),
              ports |-> [i \in 1 .. Len(all_ports) |->
                           IF all_ports[i].vrf # None /\ all_ports[i].vrf[1].name = name
                           THEN [all_ports[i] EXCEPT !.vrf = None]
                           ELSE all_ports[i]]]
        ELSE [vrfs |-> all_vrfs, ports |-> all_ports]

(***************************************************************************)
(* config_virtual_interface.py: ConfigVirtualInterfaceCommandProcessor.    *)
(*                                                                         *)
(* A handler runs on st = [ports, mode, out, raised]: the ports of the     *)
(* switch configuration, the mode of every session, the lines written and  *)
(* the exception raised ("" for none).  self = [session, port] is the      *)
(* processor: its session and the index of self.port.                      *)
(***************************************************************************)
Errno6 == "IP/Port: Errno(6) Duplicate ip address"
Errno11 == "IP/Port: Errno(11) ip subnet overlap with another interface"
Errno15 == "IP/Port: Errno(15) Can only assign one primary ip address per subnet"
Errno18 == "IP/Port: Errno(18) Delete secondary address before deleting primary address"
Incomplete == "Incomplete command."
WrongAcl(name) == "Error: Wrong Access List Name " \o name

\* self.write_line(line)
write_line(st, line) == [st EXCEPT !.out = Append(@, line)]

\* an exception leaves the handler
Raise(st, exception) == [st EXCEPT !.raised = exception]

\* The identity of a newly constructed object: the first one that no VRRP
\* list and no session holds.
NewObj(st) ==
    LET live == UNION {{st.ports[i].vrrps[k].obj : k \in 1 .. Len(st.ports[i].vrrps)} :
                          i \in {j \in 1 .. Len(st.ports) : st.ports[j].kind = "VlanPort"}}
                \cup {st.mode[s].vrrp[1].obj : s \in {t \in DOMAIN st.mode : st.mode[t].vrrp # None}}
    IN  CHOOSE o \in 1 .. (Cardinality(live) + 1) :
            o \notin live /\ \A q \in 1 .. (o - 1) : q \in live

\* self.move_to(ConfigVirtualInterfaceVrrpCommandProcessor, port, vrrp)
move_to(st, self, processor, port, vrrp) ==
    [st EXCEPT !.mode[self.session] = [proc |-> processor, port |-> port, vrrp |-> Some(vrrp)]]

\* do_ip, the loop `for ip in self.port.ips` from index i on.  It runs through
\* the primaries in order, goes on after adding a secondary and stops at the
\* first error line.
RECURSIVE ip_address_loop(_, _, _, _, _)
ip_address_loop(st, self, args, new_ip, i) ==
    LET port == st.ports[self.port] IN
    IF i > Len(port.ips) THEN st
    ELSE LET ip == port.ips[i] IN
         IF new_ip.ip = ip.ip
         THEN write_line(st, Errno6)
         ELSE IF AddrInNet(new_ip.ip, ip)
         THEN IF Len(args) > 2 /\ StartsWith("secondary", Arg(args, 2))
              THEN IF FirstIndex(port.secondary_ips, LAMBDA x : x.ip = new_ip.ip) = 0
                   THEN ip_address_loop(
                            [st EXCEPT !.ports[self.port] = add_secondary_ip(@, new_ip)],
                            self, args, new_ip, i + 1)
                   ELSE write_line(st, Errno6)
              ELSE write_line(st, Errno15)
         ELSE ip_address_loop(st, self, args, new_ip, i + 1)

\* do_ip, the block `if "address".startswith(args[0])`
ip_address(st, self, args) ==
    IF Len(args) < 2 THEN Raise(st, "IndexError")
    ELSE IF ~IPNetworkParses(Arg(args, 1)) THEN Raise(st, "AddrFormatError")
    ELSE LET new_ip == IPNetwork(Arg(args, 1))
             found == get_port_and_ip_by_ip(st.ports, new_ip.ip)
             ip_owner == found.port
         IN  IF ip_owner = 0
             THEN [st EXCEPT !.ports[self.port] = add_ip(@, new_ip)]
             ELSE IF ip_owner = self.port
                  THEN ip_address_loop(st, self, args, new_ip, 1)
                  ELSE write_line(st, Errno11)

\* do_ip, the block `if "access-group".startswith(args[0])`
ip_access_group(st, self, args) ==
    IF Len(args) < 3 THEN Raise(st, "IndexError")
    ELSE IF StartsWith("in", Arg(args, 2))
         THEN [st EXCEPT !.ports[self.port].access_group_in = Some(Arg(args, 1))]
         ELSE IF StartsWith("out", Arg(args, 2))
              THEN [st EXCEPT !.ports[self.port].access_group_out = Some(Arg(args, 1))]
              ELSE st

\* the vrid block without the lookup of the group: a new object every time
ip_vrrp_vrid_always_new(st, self, args) ==
    IF Len(args) < 3 THEN Raise(st, "IndexError")
    ELSE LET vrrp == VRRP(NewObj(st), Arg(args, 2))
         IN  move_to([st EXCEPT !.ports[self.port].vrrps = Append(@, vrrp)],
                     self, "vrrp", self.port, vrrp)

\* the vrid block with move_to inside `if vrrp is None`: an existing group
\* is found and the session stays where it is
ip_vrrp_vrid_move_when_new(st, self, args) ==
    IF Len(args) < 3 THEN Raise(st, "IndexError")
    ELSE LET group == Arg(args, 2)
             k == get_vrrp_group(st.ports[self.port], group)
         IN  IF k = 0
             THEN LET vrrp == VRRP(NewObj(st), group)
                  IN  move_to([st EXCEPT !.ports[self.port].vrrps = Append(@, vrrp)],
                              self, "vrrp", self.port, vrrp)
             ELSE st

\* do_ip, the block `if "vrid".startswith(args[1])`
ip_vrrp_vrid(st, self, args) ==
    IF Len(args) < 3 THEN Raise(st, "IndexError")
    ELSE LET group == Arg(args, 2)
             k == get_vrrp_group(st.ports[self.port], group)
         IN  IF k = 0
             THEN LET vrrp == VRRP(NewObj(st), group)
                  IN  move_to([st EXCEPT !.ports[self.port].vrrps = Append(@, vrrp)],
                              self, "vrrp", self.port, vrrp)
             ELSE move_to(st, self, "vrrp", self.port, st.ports[self.port].vrrps[k])

\* do_ip, the block `if "auth-type".startswith(args[1])`
ip_vrrp_auth_type(st, self, args) ==
    IF Len(args) < 3 THEN Raise(st, "IndexError")
    ELSE IF StartsWith("simple-text-auth", Arg(args, 2))
         THEN IF Len(args) < 4 THEN Raise(st, "IndexError")
              ELSE [st EXCEPT !.ports[self.port].vrrp_common_authentication =
                                  Some(Arg(args, 3))]
         ELSE IF StartsWith("no-auth", Arg(args, 2))
              THEN [st EXCEPT !.ports[self.port].vrrp_common_authentication = None]
              ELSE st

\* do_ip, the block `if "vrrp-extended".startswith(args[0])`
ip_vrrp_extended(st, self, args) ==
    IF Len(args) < 2 THEN Raise(st, "IndexError")
    ELSE LET s1 == IF StartsWith("vrid", Arg(args, 1))
                   THEN ip_vrrp_vrid(st, self, args) ELSE st
         IN  IF s1.raised # "" THEN s1
             ELSE IF StartsWith("auth-type", Arg(args, 1))
                  THEN ip_vrrp_auth_type(s1, self, args) ELSE s1

\* do_ip(*args): its three blocks run one after the other
do_ip(st, self, args) ==
    LET s1 == IF StartsWith("address", Arg(args, 0))
              THEN ip_address(st, self, args) ELSE st
        s2 == IF s1.raised # "" THEN s1
              ELSE IF StartsWith("access-group", Arg(args, 0))
                   THEN ip_access_group(s1, self, args) ELSE s1
    IN  IF s2.raised # "" THEN s2
        ELSE IF StartsWith("vrrp-extended", Arg(args, 0))
             THEN ip_vrrp_extended(s2, self, args) ELSE s2

\* do_no_ip, the block `if "address".startswith(args[0])`
no_ip_address(st, self, args) ==
    IF Len(args) < 2 THEN Raise(st, "IndexError")
    ELSE IF ~IPNetworkParses(Arg(args, 1)) THEN Raise(st, "AddrFormatError")
    ELSE LET deleting_ip == IPNetwork(Arg(args, 1))
             port == st.ports[self.port]
         IN  IF FirstIndex(port.secondary_ips, LAMBDA ip : ip.ip = deleting_ip.ip) # 0
             THEN [st EXCEPT !.ports[self.port] = remove_secondary_ip(@, deleting_ip)]
             ELSE IF FirstIndex(port.secondary_ips,
                                LAMBDA ip : NetInNet(ip, deleting_ip)) = 0
                  THEN [st EXCEPT !.ports[self.port] = remove_ip(@, deleting_ip)]
                  ELSE write_line(st, Errno18)

\* the access-group block of do_no_ip without the comparison of the names
no_ip_access_group_any_name(st, self, args) ==
    IF Len(args) < 3
    THEN IF Len(args) < 2 THEN Raise(st, "IndexError")
         ELSE write_line(st, WrongAcl(Arg(args, 1)))
    ELSE IF StartsWith("in", Arg(args, 2))
         THEN [st EXCEPT !.ports[self.port].access_group_in = None]
         ELSE IF StartsWith("out", Arg(args, 2))
              THEN [st EXCEPT !.ports[self.port].access_group_out = None]
              ELSE st

\* do_no_ip, the block `if "access-group".startswith(args[0])`
no_ip_access_group(st, self, args) ==
    IF Len(args) < 3
    THEN IF Len(args) < 2 THEN Raise(st, "IndexError")
         ELSE write_line(st, WrongAcl(Arg(args, 1)))
    ELSE LET port == st.ports[self.port] IN
         IF StartsWith("in", Arg(args, 2))
         THEN IF port.access_group_in = Some(Arg(args, 1))
              THEN [st EXCEPT !.ports[self.port].access_group_in = None]
              ELSE write_line(st, WrongAcl(Arg(args, 1)))
         ELSE IF StartsWith("out", Arg(args, 2))
              THEN IF port.access_group_out = Some(Arg(args, 1))
                   THEN [st EXCEPT !.ports[self.port].access_group_out = None]
                   ELSE write_line(st, WrongAcl(Arg(args, 1)))
              ELSE st

\* do_no_ip, the block `if "vrid".startswith(args[1])`
no_ip_vrrp_vrid(st, self, args) ==
    IF Len(args) < 3 THEN Raise(st, "IndexError")
    ELSE LET k == get_vrrp_group(st.ports[self.port], Arg(args, 2))
         IN  IF k # 0
             THEN [st EXCEPT !.ports[self.port].vrrps = RemoveAt(@, k)]
             ELSE st

\* do_no_ip, the block `if "auth-type".startswith(args[1])`
no_ip_vrrp_auth_type(st, self, args) ==
    IF Len(args) < 3 THEN Raise(st, "IndexError")
    ELSE IF StartsWith("simple-text-auth", Arg(args, 2)) /\ Len(args) = 4
         THEN do_ip(st, self, <<"vrrp-extended", "auth-type", "no-auth">>)
         ELSE write_line(st, Incomplete)

\* do_no_ip, the block `if "vrrp-extended".startswith(args[0])`
no_ip_vrrp_extended(st, self, args) ==
    IF Len(args) < 2 THEN Raise(st, "IndexError")
    ELSE LET s1 == IF StartsWith("vrid", Arg(args, 1))
                   THEN no_ip_vrrp_vrid(st, self, args) ELSE st
         IN  IF s1.raised # "" THEN s1
             ELSE IF StartsWith("auth-type", Arg(args, 1))
                  THEN no_ip_vrrp_auth_type(s1, self, args) ELSE s1

\* do_no_ip(*args)
do_no_ip(st, self, args) ==
    LET s1 == IF StartsWith("address", Arg(args, 0))
              THEN no_ip_address(st, self, args) ELSE st
        s2 == IF s1.raised # "" THEN s1
              ELSE IF StartsWith("access-group", Arg(args, 0))
                   THEN no_ip_access_group(s1, self, args) ELSE s1
    IN  IF s2.raised # "" THEN s2
        ELSE IF StartsWith("vrrp-extended", Arg(args, 0))
             THEN no_ip_vrrp_extended(s2, self, args) ELSE s2

(***************************************************************************)
(* The sessions.  mode[s] is the processor on top of the mode stack of     *)
(* session s: [proc, port, vrrp] with proc "vif" (virtual-interface mode   *)
(* on ports[port]) or "vrrp" (the sub-mode editing the object vrrp).       *)
(***************************************************************************)
Sessions == {"s1"}

VifMode(p) == [proc |-> "vif", port |-> p, vrrp |-> None]

\* The state a handler starts on.
Start == [ports |-> ports, mode |-> mode, out |-> <<>>, raised |-> ""]

\* The number of IP entries of the ports i .. Len(all_ports)
RECURSIVE CountIps(_, _)
CountIps(all_ports, i) ==
    IF i > Len(all_ports) THEN 0
    ELSE (IF all_ports[i].kind = "VlanPort"
          THEN Len(all_ports[i].ips) + Len(all_ports[i].secondary_ips) ELSE 0)
         + CountIps(all_ports, i + 1)

\* The lists of st are within the bounds of the model.
WithinBounds(st) == CountIps(st.ports, 1) <= MaxIps

\* What a command leaves behind: the model, the lines written, and the command.
Finish(st, op, s, args) ==
    /\ WithinBounds(st)
    /\ ports' = st.ports
    /\ mode' = st.mode
    /\ out' = st.out
    /\ cmd' = [op |-> op, session |-> s, port |-> mode[s].port,
               args |-> args, raised |-> st.raised]

\* `ip <args>` in virtual-interface mode
DoIp(s, args) ==
    /\ mode[s].proc = "vif"
    /\ Finish(do_ip(Start, [session |-> s, port |-> mode[s].port], args), "ip", s, args)
    /\ UNCHANGED <<vrfs, vlans, heap>>

\* `no ip <args>` in virtual-interface mode
DoNoIp(s, args) ==
    /\ mode[s].proc = "vif"
    /\ Finish(do_no_ip(Start, [session |-> s, port |-> mode[s].port], args), "no ip", s, args)
    /\ UNCHANGED <<vrfs, vlans, heap>>

\* `exit` in the VRRP sub-mode: back to the virtual-interface mode of the port
Exit(s) ==
    /\ mode[s].proc = "vrrp"
    /\ mode' = [mode EXCEPT ![s] = VifMode(mode[s].port)]
    /\ out' = <<>>
    /\ cmd' = [op |-> "exit", session |-> s, port |-> mode[s].port,
               args |-> <<>>, raised |-> ""]
    /\ UNCHANGED <<ports, vrfs, vlans, heap>>

\* leaving the virtual-interface mode of one port for that of another VlanPort
Interface(s, p) ==
    /\ mode[s].proc = "vif"
    /\ mode[s].port # p
    /\ ports[p].kind = "VlanPort"
    /\ mode' = [mode EXCEPT ![s] = VifMode(p)]
    /\ out' = <<>>
    /\ cmd' = [op |-> "interface", session |-> s, port |-> p,
               args |-> <<>>, raised |-> ""]
    /\ UNCHANGED <<ports, vrfs, vlans, heap>>

(***************************************************************************)
(* Calls on the SwitchConfiguration.                                       *)
(***************************************************************************)
ConfigCall(op, p, args) ==
    /\ out' = <<>>
    /\ cmd' = [op |-> op, session |-> "", port |-> p, args |-> args, raised |-> ""]
    /\ UNCHANGED mode

\* switch_configuration.add_vrf(VRF(name))
AddVrf(name) ==
    /\ vrfs' = add_vrf(vrfs, VRF(name))
    /\ UNCHANGED <<ports, vlans, heap>>
    /\ ConfigCall("add_vrf", 0, <<name>>)

\* switch_configuration.remove_vrf(name)
RemoveVrf(name) ==
    /\ LET r == remove_vrf(vrfs, ports, name)
       IN  vrfs' = r.vrfs /\ ports' = r.ports
    /\ UNCHANGED <<vlans, heap>>
    /\ ConfigCall("remove_vrf", 0, <<name>>)

\* a port is given the VRF of that name: port.vrf = get_vrf(name), when there is one
SetVrf(p, name) ==
    /\ get_vrf(vrfs, name) # 0
    /\ ports' = [ports EXCEPT ![p].vrf = Some(vrfs[get_vrf(vrfs, name)])]
    /\ UNCHANGED <<vrfs, vlans, heap>>
    /\ ConfigCall("set_vrf", p, <<name>>)

(***************************************************************************)
(* The command lines the model issues.                                     *)
(***************************************************************************)
Cidrs ==
    {CidrText([ip |-> a, prefixlen |-> l]) :
        a \in {b \in Addrs : b <= MaxAddr}, l \in {k \in PrefixLens : k <= MaxPrefixLen}}

AddressArgs ==
    {<<"address", c>> : c \in Cidrs} \cup {<<"address", c, "secondary">> : c \in Cidrs}

NoAddressArgs == {<<"address", c>> : c \in Cidrs}

AclNames == {"ACL1", "ACL2"}

\* set an access group: full and abbreviated keywords, and no direction
AccessGroupArgs ==
    {<<"access-group", n, d>> : n \in AclNames, d \in {"in", "out", "o"}}
    \cup {<<"acc", "ACL1", "i">>, <<"access-group", "ACL1">>}

\* clear an access group: also with no direction and with a direction that is none
NoAccessGroupArgs ==
    {<<"access-group", n, d>> : n \in AclNames, d \in {"in", "out", "i"}}
    \cup {<<"access-group", n>> : n \in AclNames}
    \cup {<<"acc", "ACL1", "o">>, <<"access-group", "ACL1", "both">>}

Groups == {"1", "2"}

VridArgs == {<<"vrrp-extended", "vrid", g>> : g \in Groups} \cup {<<"vrrp", "vr", "1">>}

AuthTypeArgs ==
    {<<"vrrp-extended", "auth-type", "simple-text-auth", "pw">>,
     <<"vrrp-extended", "auth-type", "no-auth">>,
     <<"vrrp", "auth", "simple", "pw2">>}

\* `no ip vrrp-extended auth-type ...` with two to five tokens
NoAuthTypeArgs ==
    {<<"vrrp-extended", "auth-type">>,
     <<"vrrp-extended", "auth-type", "simple-text-auth">>,
     <<"vrrp-extended", "auth-type", "simple-text-auth", "pw">>,
     <<"vrrp-extended", "auth-type", "simple", "other">>,
     <<"vrrp-extended", "auth-type", "no-auth", "pw">>,
     <<"vrrp-extended", "auth-type", "simple-text-auth", "pw", "more">>}

\* the addresses of the runs that mix all the commands: two addresses of one
\* subnet and a wider network around it
VifCidrs == {"0/1", "1/1", "2/0"}

IpArgs ==
    {<<"address", c>> : c \in VifCidrs}
    \cup {<<"address", c, "secondary">> : c \in VifCidrs}
    \cup AccessGroupArgs \cup VridArgs \cup AuthTypeArgs

NoIpArgs ==
    {<<"address", c>> : c \in VifCidrs}
    \cup NoAccessGroupArgs \cup VridArgs \cup NoAuthTypeArgs

VrfNames == {"DEFAULT-LAN", "A", "B"}

(***************************************************************************)
(* The initial state: a switch configuration with two VlanPorts and the    *)
(* default VRF, the session in the virtual-interface mode of the first.    *)
(***************************************************************************)
Init ==
    /\ ports = <<VlanPort("1", "ve1"), VlanPort("2", "ve2")>>
    /\ vlans = <<>>
    /\ vrfs = <<VRF("DEFAULT-LAN")>>
    /\ heap = <<>>
    /\ mode = [s \in Sessions |-> VifMode(1)]
    /\ out = <<>>
    /\ cmd = [op |-> "init", session |-> "", port |-> 0, args |-> <<>>, raised |-> ""]
    /\ ncmds = 0

\* one more command line of a run of at most MaxCmds
Count == ncmds < MaxCmds /\ ncmds' = ncmds + 1

(***************************************************************************)
(* Spec: every command of the virtual-interface mode, in runs of at most   *)
(* MaxCmds command lines.                                                  *)
(***************************************************************************)
Next ==
    \E s \in Sessions :
        \/ \E args \in IpArgs : Count /\ DoIp(s, args)
        \/ \E args \in NoIpArgs : Count /\ DoNoIp(s, args)
        \/ Count /\ Exit(s)
        \/ \E p \in 1 .. Len(ports) : Count /\ Interface(s, p)

Spec == Init /\ [][Next]_vars

(***************************************************************************)
(* SpecAddress: `ip address` and `no ip address` with the addresses and    *)
(* prefix lengths of Cidrs, on two VlanPorts, in runs of any length.       *)
(***************************************************************************)
NextAddress ==
    \E s \in Sessions :
        \/ \E args \in AddressArgs : DoIp(s, args) /\ UNCHANGED ncmds
        \/ \E args \in NoAddressArgs : DoNoIp(s, args) /\ UNCHANGED ncmds
        \/ \E p \in 1 .. Len(ports) : Interface(s, p) /\ UNCHANGED ncmds

SpecAddress == Init /\ [][NextAddress]_vars

(***************************************************************************)
(* SpecAcl: the access-group commands, in runs of any length.              *)
(***************************************************************************)
NextAcl ==
    \E s \in Sessions :
        \/ \E args \in AccessGroupArgs : DoIp(s, args) /\ UNCHANGED ncmds
        \/ \E args \in NoAccessGroupArgs : DoNoIp(s, args) /\ UNCHANGED ncmds
        \/ \E p \in 1 .. Len(ports) : Interface(s, p) /\ UNCHANGED ncmds

SpecAcl == Init /\ [][NextAcl]_vars

(***************************************************************************)
(* SpecVrrp: the vrrp-extended commands, in runs of any length.            *)
(***************************************************************************)
NextVrrp ==
    \E s \in Sessions :
        \/ \E args \in VridArgs \cup AuthTypeArgs : DoIp(s, args) /\ UNCHANGED ncmds
        \/ \E args \in VridArgs \cup NoAuthTypeArgs : DoNoIp(s, args) /\ UNCHANGED ncmds
        \/ Exit(s) /\ UNCHANGED ncmds
        \/ \E p \in 1 .. Len(ports) : Interface(s, p) /\ UNCHANGED ncmds

SpecVrrp == Init /\ [][NextVrrp]_vars

(***************************************************************************)
(* SpecVrf: add_vrf, remove_vrf and the assignment of VRFs to ports, on a  *)
(* configuration whose ports carry other attributes too.                   *)
(***************************************************************************)
InitVrf ==
    /\ ports = <<[VlanPort("1", "ve1") EXCEPT !.description = Some("uplink"),
                                              !.access_group_in = Some("ACL1"),
                                              !.ips = <<IPNetwork("0/1")>>],
                 VlanPort("2", "ve2"),
                 [VlanPort("3", "ve3") EXCEPT !.vrrp_common_authentication = Some("pw")]>>
    /\ vlans = <<>>
    /\ vrfs = <<VRF("DEFAULT-LAN")>>
    /\ heap = <<>>
    /\ mode = [s \in Sessions |-> VifMode(1)]
    /\ out = <<>>
    /\ cmd = [op |-> "init", session |-> "", port |-> 0, args |-> <<>>, raised |-> ""]
    /\ ncmds = 0

NextVrf ==
    \/ \E name \in VrfNames : AddVrf(name) /\ UNCHANGED ncmds
    \/ \E name \in VrfNames : RemoveVrf(name) /\ UNCHANGED ncmds
    \/ \E p \in 1 .. Len(ports), name \in VrfNames : SetVrf(p, name) /\ UNCHANGED ncmds

SpecVrf == InitVrf /\ [][NextVrf]_vars

(***************************************************************************)
(* What the properties say of a step: cmd' is the command that made it,    *)
(* out' the lines it wrote, the unprimed variables the state before it.    *)
(***************************************************************************)
\* the command line `ip address <cidr> ...` / `no ip address <cidr>`
IsAddressCmd(c, op) ==
    /\ c.op = op
    /\ Len(c.args) >= 2
    /\ Arg(c.args, 0) = "address"
    /\ IPNetworkParses(Arg(c.args, 1))

\* ... written with `secondary`
WithSecondary(c) == Len(c.args) = 3 /\ Arg(c.args, 2) = "secondary"

\* the network the command line names
CmdNet(c) == IPNetwork(Arg(c.args, 1))

Primaries(port) == {port.ips[k] : k \in 1 .. Len(port.ips)}
Secondaries(port) == {port.secondary_ips[k] : k \in 1 .. Len(port.secondary_ips)}

\* the step changed neither IP list of port p
IpsUnchanged(p) ==
    /\ ports'[p].ips = ports[p].ips
    /\ ports'[p].secondary_ips = ports[p].secondary_ips

(***************************************************************************)
(* C1. For two distinct VlanPorts X and Y: when X holds an IP entry whose  *)
(* network contains an address, `ip address <that address>/<len>` on Y,    *)
(* with or without `secondary`, writes the overlap error Errno(11) and     *)
(* leaves both IP lists of Y unchanged.  (Stated here for the primary      *)
(* entries of X, the entries the overlap check reads, and for an address   *)
(* that Y does not hold itself.)                                           *)
(***************************************************************************)
C1_OverlapAlwaysRejected ==
    [][(/\ IsAddressCmd(cmd', "ip")
        /\ \A n \in Primaries(ports[cmd'.port]) \cup Secondaries(ports[cmd'.port]) :
              n.ip # CmdNet(cmd').ip
        /\ \E x \in 1 .. Len(ports) :
              /\ x # cmd'.port
              /\ \E n \in Primaries(ports[x]) : AddrInNet(CmdNet(cmd').ip, n))
       => (out' = <<Errno11>> /\ IpsUnchanged(cmd'.port))]_vars

(***************************************************************************)
(* C2. On a port with no primary IP in a subnet, no port owning the        *)
(* address, `ip address <cidr> secondary` for an address of that subnet is *)
(* rejected: neither IP list of the port changes.  Once the port has a     *)
(* primary in that subnet, the same command puts the address in the        *)
(* secondary list.                                                         *)
(***************************************************************************)
C2_SecondaryNeedsPrimary ==
    [][(IsAddressCmd(cmd', "ip") /\ WithSecondary(cmd'))
       => LET new_ip == CmdNet(cmd')
              p == cmd'.port
          IN  /\ (/\ \A x \in 1 .. Len(ports) :
                        \A n \in Primaries(ports[x]) \cup Secondaries(ports[x]) :
                            ~AddrInNet(new_ip.ip, n)
                  /\ \A n \in Primaries(ports[p]) : ~AddrInNet(n.ip, new_ip))
                 => IpsUnchanged(p)
              /\ (/\ \A x \in 1 .. Len(ports) :
                        \A n \in Primaries(ports[x]) \cup Secondaries(ports[x]) :
                            (x # p \/ n.ip = new_ip.ip) => ~AddrInNet(new_ip.ip, n)
                  /\ \E n \in Primaries(ports[p]) : AddrInNet(new_ip.ip, n))
                 => \E n \in Secondaries(ports'[p]) : n.ip = new_ip.ip]_vars

(***************************************************************************)
(* C3. `ip address` for an exact address the port already holds writes     *)
(* Errno(6) Duplicate ip address and leaves both IP lists of the port      *)
(* unchanged, in every reachable state and however often it is repeated.   *)
(***************************************************************************)
C3_DuplicateRejected ==
    [][(/\ IsAddressCmd(cmd', "ip")
        /\ \E n \in Primaries(ports[cmd'.port]) \cup Secondaries(ports[cmd'.port]) :
              n.ip = CmdNet(cmd').ip)
       => (out' = <<Errno6>> /\ IpsUnchanged(cmd'.port))]_vars

(***************************************************************************)
(* C4. On a port holding a primary P and a secondary S whose address lies  *)
(* in P's subnet, every `no ip address` naming P's address, whatever the   *)
(* prefix length written, writes Errno(18) and removes nothing; and        *)
(* `no ip address S` then `no ip address P` remove S and then P without an *)
(* error line.                                                             *)
(***************************************************************************)
C4_PrimaryKeptWhileSecondary ==
    [][IsAddressCmd(cmd', "no ip")
       => LET del == CmdNet(cmd')
              port == ports[cmd'.port]
          IN  /\ (\E P \in Primaries(port) :
                     /\ P.ip = del.ip
                     /\ \E S \in Secondaries(port) : AddrInNet(S.ip, P))
                 => (out' = <<Errno18>> /\ IpsUnchanged(cmd'.port))
              /\ (\E S \in Secondaries(port) : S.ip = del.ip)
                 => /\ out' = <<>>
                    /\ ports'[cmd'.port].ips = port.ips
                    /\ Secondaries(ports'[cmd'.port]) =
                          {S \in Secondaries(port) : S.ip # del.ip}
              /\ (/\ port.secondary_ips = <<>>
                  /\ \E P \in Primaries(port) : P.ip = del.ip)
                 => /\ out' = <<>>
                    /\ Primaries(ports'[cmd'.port]) =
                          {P \in Primaries(port) : P.ip # del.ip}]_vars

(***************************************************************************)
(* C5. Every command of the virtual-interface mode that writes an error    *)
(* line (Errno 6, 11, 15, 18, Wrong Access List Name, Incomplete command)  *)
(* leaves the whole model as it was: the IP lists, access groups, VRRP     *)
(* list and VRRP authentication of every port.  Every line the mode writes *)
(* is one of these, so a command that wrote an error line is one that      *)
(* wrote a line.                                                           *)
(***************************************************************************)
C5_ErrorLeavesModelUnchanged ==
    [][(cmd'.op \in {"ip", "no ip"} /\ out' # <<>>) => ports' = ports]_vars

(***************************************************************************)
(* C6. `no ip access-group <name> <dir>` clears the access group of the    *)
(* direction dir of the port if and only if the name configured for that   *)
(* direction is <name>; otherwise it writes "Error: Wrong Access List Name *)
(* <name>" and both access groups keep their values.  Without a direction  *)
(* it writes that error and changes nothing.  The direction the command    *)
(* does not name is never modified.                                        *)
(***************************************************************************)
\* the direction the token names, by prefix
Direction(tok) ==
    IF StartsWith("in", tok) THEN "in" ELSE IF StartsWith("out", tok) THEN "out" ELSE "none"

IsNoAccessGroupCmd(c) ==
    /\ c.op = "no ip"
    /\ Len(c.args) \in {2, 3}
    /\ StartsWith("access-group", Arg(c.args, 0))
    /\ ~StartsWith("address", Arg(c.args, 0))
    /\ Len(c.args) = 3 => Direction(Arg(c.args, 2)) # "none"

C6_NoAccessGroup ==
    [][IsNoAccessGroupCmd(cmd')
       => LET p == cmd'.port
              name == Arg(cmd'.args, 1)
              dir == IF Len(cmd'.args) = 3 THEN Direction(Arg(cmd'.args, 2)) ELSE "none"
              before == ports[p]
              after == ports'[p]
              matches == \/ dir = "in" /\ before.access_group_in = Some(name)
                         \/ dir = "out" /\ before.access_group_out = Some(name)
          IN  /\ cmd'.raised = ""
              /\ matches => out' = <<>>
              /\ ~matches => out' = <<WrongAcl(name)>>
              /\ after.access_group_in =
                    IF matches /\ dir = "in" THEN None ELSE before.access_group_in
              /\ after.access_group_out =
                    IF matches /\ dir = "out" THEN None ELSE before.access_group_out
              /\ \A q \in 1 .. Len(ports) : q # p => ports'[q] = ports[q]]_vars

\* `no ip access-group ACL1 in` on a port whose inbound group is ACL2 wrote the error
C6_Witness ==
    /\ cmd.op = "no ip"
    /\ cmd.args = <<"access-group", "ACL1", "in">>
    /\ ports[cmd.port].access_group_in = Some("ACL2")
    /\ ports[cmd.port].access_group_out = Some("ACL1")
    /\ out = <<WrongAcl("ACL1")>>

(***************************************************************************)
(* C7. After any sequence of `ip vrrp-extended vrid <g>` and               *)
(* `no ip vrrp-extended vrid <g>` on a port, its VRRP list holds at most   *)
(* one group per group id, and holds group g exactly when the last of      *)
(* those commands naming g was the positive one.  As a property of each    *)
(* step: `vrid g` leaves g in the list, reusing the object that is there   *)
(* (the list is unchanged and the session edits that object);              *)
(* `no ... vrid g` leaves g out of it, and on an absent group changes      *)
(* nothing and writes no line; and no step touches another group or        *)
(* another port's list.                                                    *)
(***************************************************************************)
IsVridCmd(c, op) ==
    /\ c.op = op
    /\ Len(c.args) >= 3
    /\ StartsWith("vrrp-extended", Arg(c.args, 0))
    /\ StartsWith("vrid", Arg(c.args, 1))

VrrpsOf(port) == {port.vrrps[k] : k \in 1 .. Len(port.vrrps)}
GroupIds(port) == {v.group_id : v \in VrrpsOf(port)}

OneGroupPerId(port) ==
    \A i, j \in 1 .. Len(port.vrrps) :
        port.vrrps[i].group_id = port.vrrps[j].group_id => i = j

C7_VrrpGroupLifecycle ==
    [][/\ \A q \in 1 .. Len(ports) : OneGroupPerId(ports'[q])
       /\ IF IsVridCmd(cmd', "ip")
          THEN LET p == cmd'.port
                   g == Arg(cmd'.args, 2)
               IN  /\ g \in GroupIds(ports'[p])
                   /\ {v \in VrrpsOf(ports'[p]) : v.group_id # g}
                         = {v \in VrrpsOf(ports[p]) : v.group_id # g}
                   /\ g \in GroupIds(ports[p])
                         => /\ ports'[p].vrrps = ports[p].vrrps
                            /\ mode'[cmd'.session].vrrp
                                  = Some(ports[p].vrrps[get_vrrp_group(ports[p], g)])
                   /\ \A q \in 1 .. Len(ports) : q # p => ports'[q].vrrps = ports[q].vrrps
          ELSE IF IsVridCmd(cmd', "no ip")
          THEN LET p == cmd'.port
                   g == Arg(cmd'.args, 2)
               IN  /\ g \notin GroupIds(ports'[p])
                   /\ {v \in VrrpsOf(ports'[p]) : v.group_id # g}
                         = {v \in VrrpsOf(ports[p]) : v.group_id # g}
                   /\ g \notin GroupIds(ports[p]) => (ports' = ports /\ out' = <<>>)
                   /\ \A q \in 1 .. Len(ports) : q # p => ports'[q].vrrps = ports[q].vrrps
          ELSE \A q \in 1 .. Len(ports) : ports'[q].vrrps = ports[q].vrrps]_vars

\* `vrid 1` was issued on a port whose list held group 1 before group 2: the
\* group was there and was reused, not appended
C7_Witness ==
    /\ IsVridCmd(cmd, "ip")
    /\ Arg(cmd.args, 2) = "1"
    /\ Len(ports[cmd.port].vrrps) = 2
    /\ ports[cmd.port].vrrps[1].group_id = "1"
    /\ mode[cmd.session].vrrp = Some(ports[cmd.port].vrrps[1])

(***************************************************************************)
(* C8. `no ip vrrp-extended auth-type ...`: with exactly four argument     *)
(* tokens, the third a prefix of simple-text-auth, it sets the port's VRRP *)
(* authentication to none and writes no line; every other form (two,       *)
(* three, five or more tokens) writes the line "Incomplete command.", as a *)
(* line and not as a raised fault, and leaves the authentication as it is. *)
(***************************************************************************)
IsNoAuthTypeCmd(c) ==
    /\ c.op = "no ip"
    /\ Len(c.args) >= 2
    /\ StartsWith("vrrp-extended", Arg(c.args, 0))
    /\ StartsWith("auth-type", Arg(c.args, 1))

C8_NoAuthType ==
    [][IsNoAuthTypeCmd(cmd')
       => LET p == cmd'.port IN
          IF Len(cmd'.args) = 4 /\ StartsWith("simple-text-auth", Arg(cmd'.args, 2))
          THEN /\ ports'[p].vrrp_common_authentication = None
               /\ out' = <<>>
               /\ cmd'.raised = ""
          ELSE /\ out' = <<Incomplete>>
               /\ cmd'.raised = ""
               /\ ports'[p].vrrp_common_authentication
                     = ports[p].vrrp_common_authentication]_vars

(***************************************************************************)
(* C9. In virtual-interface mode on port P, `ip vrrp-extended vrid <g>`    *)
(* always moves the session into the VRRP sub-mode for port P and the      *)
(* group with id g, which is then a member of P's VRRP list; no other      *)
(* command of the mode (ip address, access-group, auth-type, any `no`      *)
(* form) changes the mode of the session.                                  *)
(***************************************************************************)
C9_VridEntersSubMode ==
    [][cmd'.op \in {"ip", "no ip"}
       => LET s == cmd'.session
              p == cmd'.port
          IN  IF IsVridCmd(cmd', "ip")
              THEN /\ mode[s] = VifMode(p)
                   /\ mode'[s].proc = "vrrp"
                   /\ mode'[s].port = p
                   /\ mode'[s].vrrp # None
                   /\ mode'[s].vrrp[1].group_id = Arg(cmd'.args, 2)
                   /\ mode'[s].vrrp[1] \in VrrpsOf(ports'[p])
                   /\ \A t \in Sessions : t # s => mode'[t] = mode[t]
              ELSE mode' = mode]_vars

\* `vrid 2` has taken the session into the sub-mode of a group it created
\* behind group 1, on the second port
C9_Witness ==
    /\ IsVridCmd(cmd, "ip")
    /\ cmd.port = 2
    /\ Arg(cmd.args, 2) = "2"
    /\ mode[cmd.session].proc = "vrrp"
    /\ Len(ports[2].vrrps) = 2
    /\ mode[cmd.session].vrrp = Some(ports[2].vrrps[2])

(***************************************************************************)
(* C10. After remove_vrf(name): no VRF of that name is in the VRF          *)
(* collection (which never holds two VRFs of one name), every port that    *)
(* referenced a VRF of that name has vrf = none, the ports referencing     *)
(* other VRFs keep their reference, and every other attribute of every     *)
(* port and every other VRF of the collection is unchanged.  remove_vrf of *)
(* an unknown name changes nothing.                                        *)
(***************************************************************************)
VrfNamesIn(all_vrfs) == {all_vrfs[k].name : k \in 1 .. Len(all_vrfs)}

\* the elements of seq that are not named name, in their order
RECURSIVE WithoutName(_, _)
WithoutName(seq, name) ==
    IF seq = <<>> THEN <<>>
    ELSE IF Head(seq).name = name THEN WithoutName(Tail(seq), name)
         ELSE <<Head(seq)>> \o WithoutName(Tail(seq), name)

C10_RemoveVrf ==
    [][/\ \A i, j \in 1 .. Len(vrfs') : vrfs'[i].name = vrfs'[j].name => i = j
       /\ cmd'.op = "remove_vrf"
          => LET name == Arg(cmd'.args, 0) IN
             /\ name \notin VrfNamesIn(vrfs')
             /\ vrfs' = WithoutName(vrfs, name)
             /\ Len(ports') = Len(ports)
             /\ \A i \in 1 .. Len(ports) :
                   IF ports[i].vrf # None /\ ports[i].vrf[1].name = name
                   THEN ports'[i] = [ports[i] EXCEPT !.vrf = None]
                   ELSE ports'[i] = ports[i]
             /\ name \notin VrfNamesIn(vrfs) => (vrfs' = vrfs /\ ports' = ports)]_vars

\* remove_vrf("A") has run on a configuration that keeps VRF B and a port in it
C10_Witness ==
    /\ cmd.op = "remove_vrf"
    /\ cmd.args = <<"A">>
    /\ VrfNamesIn(vrfs) = {"DEFAULT-LAN", "B"}
    /\ ports[1].vrf = None
    /\ ports[2].vrf = Some(VRF("B"))
    /\ ports[1].access_group_in = Some("ACL1")

(***************************************************************************)
(* C11. The default VRF is always present: in every state reached from     *)
(* construction by add_vrf and remove_vrf calls with any names, the VRF    *)
(* collection holds a VRF named DEFAULT-LAN.                               *)
(***************************************************************************)
C11_DefaultVrfPresent == "DEFAULT-LAN" \in VrfNamesIn(vrfs)

(***************************************************************************)
(* switch_configuration.py: Port, Vlan and the port and VLAN collections.  *)
(***************************************************************************)
\* Port(name): Port.__init__; vendor_specific, a dict, is the set of its items
Port(name) ==
    [kind |-> "Port",
     name |-> name,
     switch_configuration |-> None,
     description |-> None,
     mode |-> None,
     access_vlan |-> None,
     trunk_vlans |-> None,
     trunk_native_vlan |-> None,
     trunk_encapsulation_mode |-> None,
     shutdown |-> None,
     vrf |-> None,
     speed |-> None,
     auto_negotiation |-> None,
     aggregation_membership |-> None,
     vendor_specific |-> {}]

\* Vlan(number): Vlan.__init__ with the defaults of its other parameters
Vlan(number) ==
    [kind |-> "Vlan",
     number |-> number,
     name |-> None,
     description |-> None,
     switch_configuration |-> None]

\* the SwitchConfiguration that the back-references name
Switch == "switch"

\* The most entries of the port list and of the VLAN list that the model explores.
MaxListLen == 3

\* get_port(name): the index in the port list, 0 for None
get_port(all_ports, h, name) == FirstIndex(all_ports, LAMBDA port : h[port].name = name)

\* get_vlan(number): the index in the VLAN list, 0 for None
get_vlan(all_vlans, h, number) == FirstIndex(all_vlans, LAMBDA vlan : h[vlan].number = number)

\* add_port(port) and add_vlan(vlan): [list, heap, raised] after the call
add_to_list(list, h, object) ==
    [list |-> Append(list, object),
     heap |-> [h EXCEPT ![object].switch_configuration = Some(Switch)],
     raised |-> ""]

\* remove_port(port) and remove_vlan(vlan): the back-reference is cleared
\* first; list.remove takes out the first occurrence of the object and raises
\* ValueError when there is none
remove_from_list(list, h, object) ==
    LET cleared == [h EXCEPT ![object].switch_configuration = None]
        i == FirstIndex(list, LAMBDA o : o = object)
    IN  IF i # 0
        THEN [list |-> RemoveAt(list, i), heap |-> cleared, raised |-> ""]
        ELSE [list |-> list, heap |-> cleared, raised |-> "ValueError"]

\* The objects that exist: two ports of one name, a port of another name, and
\* two VLANs.
PortObjs == {"port1", "port2", "port3"}
VlanObjs == {"vlan1", "vlan2"}

PortName(o) == IF o = "port2" THEN "ethernet 1/2" ELSE "ethernet 1/1"
VlanNumber(o) == IF o = "vlan2" THEN 20 ELSE 10

CollectionCall(op, object, raised) ==
    /\ out' = <<>>
    /\ cmd' = [op |-> op, session |-> "", port |-> 0, args |-> <<object>>, raised |-> raised]
    /\ UNCHANGED <<vrfs, mode, ncmds>>

\* switch_configuration.add_port(port)
AddPort(port) ==
    /\ Len(ports) < MaxListLen
    /\ LET r == add_to_list(ports, heap, port)
       IN  ports' = r.list /\ heap' = r.heap /\ CollectionCall("add_port", port, r.raised)
    /\ UNCHANGED vlans

\* switch_configuration.remove_port(port)
RemovePort(port) ==
    /\ LET r == remove_from_list(ports, heap, port)
       IN  ports' = r.list /\ heap' = r.heap /\ CollectionCall("remove_port", port, r.raised)
    /\ UNCHANGED vlans

\* switch_configuration.add_vlan(vlan)
AddVlan(vlan) ==
    /\ Len(vlans) < MaxListLen
    /\ LET r == add_to_list(vlans, heap, vlan)
       IN  vlans' = r.list /\ heap' = r.heap /\ CollectionCall("add_vlan", vlan, r.raised)
    /\ UNCHANGED ports

\* switch_configuration.remove_vlan(vlan)
RemoveVlan(vlan) ==
    /\ LET r == remove_from_list(vlans, heap, vlan)
       IN  vlans' = r.list /\ heap' = r.heap /\ CollectionCall("remove_vlan", vlan, r.raised)
    /\ UNCHANGED ports

(***************************************************************************)
(* SpecCollections: add_port, remove_port, add_vlan and remove_vlan on a   *)
(* configuration constructed without ports and VLANs (the constructor adds *)
(* those it is given with the same add_port and add_vlan).                 *)
(***************************************************************************)
InitCollections ==
    /\ ports = <<>>
    /\ vlans = <<>>
    /\ vrfs = <<VRF("DEFAULT-LAN")>>
    /\ heap = [o \in PortObjs \cup VlanObjs |->
                 IF o \in PortObjs THEN Port(PortName(o)) ELSE Vlan(VlanNumber(o))]
    /\ mode = [s \in Sessions |-> VifMode(0)]
    /\ out = <<>>
    /\ cmd = [op |-> "init", session |-> "", port |-> 0, args |-> <<>>, raised |-> ""]
    /\ ncmds = 0

NextCollections ==
    \/ \E port \in PortObjs : AddPort(port)
    \/ \E port \in PortObjs : RemovePort(port)
    \/ \E vlan \in VlanObjs : AddVlan(vlan)
    \/ \E vlan \in VlanObjs : RemoveVlan(vlan)

SpecCollections == InitCollections /\ [][NextCollections]_vars

\* the objects of a list
Members(list) == {list[i] : i \in 1 .. Len(list)}

(***************************************************************************)
(* C12. In every state reached by add_port, remove_port, add_vlan and      *)
(* remove_vlan calls, no two entries of the port list have the same name   *)
(* and no two entries of the VLAN list have the same number, so that       *)
(* get_port(name) and get_vlan(number) name at most one entry.             *)
(***************************************************************************)
C12_UniqueNamesAndNumbers ==
    /\ \A i, j \in 1 .. Len(ports) : heap[ports[i]].name = heap[ports[j]].name => i = j
    /\ \A i, j \in 1 .. Len(vlans) : heap[vlans[i]].number = heap[vlans[j]].number => i = j
    /\ \A i \in 1 .. Len(ports) : get_port(ports, heap, heap[ports[i]].name) = i
    /\ \A i \in 1 .. Len(vlans) : get_vlan(vlans, heap, heap[vlans[i]].number) = i

(***************************************************************************)
(* C19. After any sequence of add_port and remove_port calls (adding a     *)
(* port twice and removing a port that is not in the list included), the   *)
(* switch_configuration back-reference of a port names the configuration   *)
(* exactly when the port is in the configuration's port list; and the same *)
(* for the VLANs with add_vlan and remove_vlan.                            *)
(***************************************************************************)
C19_BackReferenceIffMember ==
    /\ \A port \in PortObjs :
          heap[port].switch_configuration = Some(Switch) <=> port \in Members(ports)
    /\ \A vlan \in VlanObjs :
          heap[vlan].switch_configuration = Some(Switch) <=> vlan \in Members(vlans)

(***************************************************************************)
(* switch_configuration.py: get_port_by_partial_name and split_port_name.  *)
(***************************************************************************)
\* str.lower() of one character
LowerChar(c) ==
    CASE c = "A" -> "a" [] c = "B" -> "b" [] c = "C" -> "c" [] c = "D" -> "d"
      [] c = "E" -> "e" [] c = "F" -> "f" [] c = "G" -> "g" [] c = "H" -> "h"
      [] c = "I" -> "i" [] c = "J" -> "j" [] c = "K" -> "k" [] c = "L" -> "l"
      [] c = "M" -> "m" [] c = "N" -> "n" [] c = "O" -> "o" [] c = "P" -> "p"
      [] c = "Q" -> "q" [] c = "R" -> "r" [] c = "S" -> "s" [] c = "T" -> "t"
      [] c = "U" -> "u" [] c = "V" -> "v" [] c = "W" -> "w" [] c = "X" -> "x"
      [] c = "Y" -> "y" [] c = "Z" -> "z" [] OTHER -> c

\* str.lower()
RECURSIVE Lower(_)
Lower(s) ==
    IF s = "" THEN "" ELSE LowerChar(SubSeq(s, 1, 1)) \o Lower(SubSeq(s, 2, Len(s)))

\* str.strip(), of spaces
RECURSIVE Strip(_)
Strip(s) ==
    IF s = "" THEN ""
    ELSE IF SubSeq(s, 1, 1) = " " THEN Strip(SubSeq(s, 2, Len(s)))
    ELSE IF SubSeq(s, Len(s), Len(s)) = " " THEN Strip(SubSeq(s, 1, Len(s) - 1))
    ELSE s

\* s.endswith(suffix)
EndsWith(s, suffix) ==
    Len(suffix) <= Len(s) /\ SubSeq(s, Len(s) - Len(suffix) + 1, Len(s)) = suffix

\* re.compile('\d').search(name): the index of the first digit, 0 for no match
FirstDigit(name) ==
    IF \E i \in 1 .. Len(name) : Digit(SubSeq(name, i, i)) # -1
    THEN CHOOSE i \in 1 .. Len(name) :
             /\ Digit(SubSeq(name, i, i)) # -1
             /\ \A j \in 1 .. (i - 1) : Digit(SubSeq(name, j, j)) = -1
    ELSE 0

\* split_port_name(name), for a name that holds a digit
split_port_name(name) ==
    LET number_start == FirstDigit(name)
    IN  [name |-> SubSeq(name, 1, number_start - 1),
         number |-> SubSeq(name, number_start, Len(name))]

\* get_port_by_partial_name(name): [port, raised], port the index in
\* all_ports, 0 for None; a name without a digit makes split_port_name call
\* .span() on None
get_port_by_partial_name(all_ports, name) ==
    IF FirstDigit(Lower(name)) = 0
    THEN [port |-> 0, raised |-> "AttributeError"]
    ELSE LET split == split_port_name(Lower(name))
         IN  [port |-> FirstIndex(all_ports,
                          LAMBDA port : /\ StartsWith(Lower(port.name), Strip(split.name))
                                        /\ EndsWith(Lower(port.name), Strip(split.number))),
              raised |-> ""]

\* The most ports of the port list that get_port_by_partial_name is given.
MaxNamedPorts == 2

\* the names of the ports and the names asked for
NamedPorts == {"Ethernet1", "Ethernet11", "ethernet 1/1", "Gi2"}
PartialNames == {"eth1", "ETHERNET1", "e11", "eth1/1", "gi2", "g 2", "eth3", "fa1", "eth"}

\* switch_configuration.get_port_by_partial_name(name); cmd.port is the port returned
GetPortByPartialName(name) ==
    /\ LET r == get_port_by_partial_name(ports, name)
       IN  cmd' = [op |-> "get_port_by_partial_name", session |-> "", port |-> r.port,
                   args |-> <<name>>, raised |-> r.raised]
    /\ out' = <<>>
    /\ UNCHANGED <<ports, vlans, vrfs, heap, mode, ncmds>>

(***************************************************************************)
(* SpecPartialName: get_port_by_partial_name on every port list of at most *)
(* MaxNamedPorts ports with the names of NamedPorts.                       *)
(***************************************************************************)
InitPartialName ==
    /\ \E n \in 0 .. MaxNamedPorts :
          \E names \in [1 .. n -> NamedPorts] : ports = [i \in 1 .. n |-> Port(names[i])]
    /\ vlans = <<>>
    /\ vrfs = <<VRF("DEFAULT-LAN")>>
    /\ heap = <<>>
    /\ mode = [s \in Sessions |-> VifMode(0)]
    /\ out = <<>>
    /\ cmd = [op |-> "init", session |-> "", port |-> 0, args |-> <<>>, raised |-> ""]
    /\ ncmds = 0

NextPartialName == \E name \in PartialNames : GetPortByPartialName(name)

SpecPartialName == InitPartialName /\ [][NextPartialName]_vars

(***************************************************************************)
(* C13. get_port_by_partial_name, over any port list: when the query is a  *)
(* case-insensitive prefix of the alphabetic part of a port's name         *)
(* followed by that port's numeric suffix, it resolves to such a port; and *)
(* when the numeric suffix of the query equals the numeric suffix of no    *)
(* port, it resolves to none.  (Stated for the queries that hold a digit.) *)
(***************************************************************************)
C13_PartialNameResolves ==
    (cmd.op = "get_port_by_partial_name" /\ cmd.raised = "")
    => LET query == split_port_name(Lower(Arg(cmd.args, 0)))
           Named(i) == split_port_name(Lower(ports[i].name))
           Abbreviates(i) == /\ FirstDigit(ports[i].name) # 0
                             /\ Named(i).number = query.number
                             /\ StartsWith(Named(i).name, query.name)
       IN  /\ (\E i \in 1 .. Len(ports) : Abbreviates(i))
              => (cmd.port # 0 /\ Abbreviates(cmd.port))
           /\ (\A i \in 1 .. Len(ports) :
                  FirstDigit(ports[i].name) # 0 => Named(i).number # query.number)
              => cmd.port = 0

(***************************************************************************)
(* C14. get_port_and_ip_by_ip(ip) scans the primary and the secondary      *)
(* networks of every VlanPort in port order: for every address, it returns *)
(* a pair whenever a primary or secondary network of some VlanPort holds   *)
(* the address, the port of the pair being the first such port and its     *)
(* network one that holds the address; it returns (none, none) only when   *)
(* no primary and no secondary network holds the address; and it never     *)
(* returns a port that is not a VlanPort.                                  *)
(***************************************************************************)
C14_LookupScansSecondaries ==
    \A a \in Addrs :
        LET r == get_port_and_ip_by_ip(ports, a)
            Holds(i) == /\ ports[i].kind = "VlanPort"
                        /\ \E n \in Primaries(ports[i]) \cup Secondaries(ports[i]) :
                              AddrInNet(a, n)
        IN  /\ (\E i \in 1 .. Len(ports) : Holds(i))
               => /\ r.port # 0
                  /\ Holds(r.port)
                  /\ \A j \in 1 .. (r.port - 1) : ~Holds(j)
            /\ r.port = 0 => \A i \in 1 .. Len(ports) : ~Holds(i)
            /\ r.port # 0 => ports[r.port].kind = "VlanPort"

(***************************************************************************)
(* C17. In every state reached by `ip address` and `no ip address`         *)
(* commands (with or without `secondary`, any prefix lengths) on the       *)
(* VlanPorts, primary networks never overlap: no primary address of a port *)
(* lies inside the network of a different primary entry, be that entry on  *)
(* the same port or on another one.                                        *)
(***************************************************************************)
C17_PrimariesNeverOverlap ==
    \A p, q \in 1 .. Len(ports) :
        \A i \in 1 .. Len(ports[p].ips), j \in 1 .. Len(ports[q].ips) :
            <<p, i>> # <<q, j>> => ~AddrInNet(ports[p].ips[i].ip, ports[q].ips[j])

(***************************************************************************)
(* C18. In every state reached by `ip address` and `no ip address`         *)
(* commands, every secondary IP of a VlanPort has its address inside the   *)
(* network of some primary IP of the same port, no address is twice in a   *)
(* port's secondary list, and no address is both a primary and a secondary *)
(* of one port.                                                            *)
(***************************************************************************)
C18_SecondariesUnderPrimaries ==
    \A p \in 1 .. Len(ports) :
        /\ \A S \in Secondaries(ports[p]) :
              \E P \in Primaries(ports[p]) : AddrInNet(S.ip, P)
        /\ \A i, j \in 1 .. Len(ports[p].secondary_ips) :
              ports[p].secondary_ips[i].ip = ports[p].secondary_ips[j].ip => i = j
        /\ \A S \in Secondaries(ports[p]) : \A P \in Primaries(ports[p]) : S.ip # P.ip

(***************************************************************************)
(* SpecAbbrev: the commands of the virtual-interface mode written with     *)
(* abbreviated keywords, on the first port.                                *)
(***************************************************************************)
AbbrevIpArgs ==
    {<<k, x, d>> : k \in {"a", "ad", "ac"}, x \in {"0/1", "1/1", "ACL1"}, d \in {"in", "o", "s"}}
    \cup {<<"v", "v", "1">>, <<"v", "a", "s", "pw">>, <<"v", "a", "n">>}

AbbrevNoIpArgs ==
    {<<k, x>> : k \in {"a", "ad"}, x \in {"0/1", "1/1"}}
    \cup {<<k, x, d>> : k \in {"a", "ac"}, x \in {"0/1", "ACL1"}, d \in {"in", "o"}}
    \cup {<<"v", "v", "1">>, <<"v", "a", "s", "pw">>}

NextAbbrev ==
    \E s \in Sessions :
        \/ \E args \in AbbrevIpArgs : DoIp(s, args) /\ UNCHANGED ncmds
        \/ \E args \in AbbrevNoIpArgs : DoNoIp(s, args) /\ UNCHANGED ncmds
        \/ Exit(s) /\ UNCHANGED ncmds

SpecAbbrev == Init /\ [][NextAbbrev]_vars

(***************************************************************************)
(* C15. Prefix matching in the command table of the virtual-interface mode *)
(* is mutually exclusive: every non-empty token is accepted by at most one *)
(* of the keywords checked at its position (first: address, access-group,  *)
(* vrrp-extended; second, under vrrp-extended: vrid, auth-type; third:     *)
(* simple-text-auth, no-auth and in, out), so that one `ip` or `no ip`     *)
(* command line runs at most one branch of its handler and changes at most *)
(* the state of that branch: the IP lists, or the access groups, or the    *)
(* VRRP groups, VRRP authentication and mode.                              *)
(***************************************************************************)
\* the keywords of kws that accept the token
Accepting(kws, tok) == {kw \in kws : StartsWith(kw, tok)}

C15_PrefixesExclusive ==
    [][cmd'.op \in {"ip", "no ip"}
       => LET args == cmd'.args
              p == cmd'.port
              addresses == <<ports[p].ips, ports[p].secondary_ips>>
                              # <<ports'[p].ips, ports'[p].secondary_ips>>
              groups == <<ports[p].access_group_in, ports[p].access_group_out>>
                           # <<ports'[p].access_group_in, ports'[p].access_group_out>>
              vrrp == <<ports[p].vrrps, ports[p].vrrp_common_authentication, mode>>
                         # <<ports'[p].vrrps, ports'[p].vrrp_common_authentication, mode'>>
          IN  /\ Cardinality(Accepting({"address", "access-group", "vrrp-extended"},
                                       Arg(args, 0))) <= 1
              /\ (Len(args) >= 2 /\ StartsWith("vrrp-extended", Arg(args, 0)))
                 => Cardinality(Accepting({"vrid", "auth-type"}, Arg(args, 1))) <= 1
              /\ Len(args) >= 3
                 => /\ Cardinality(Accepting({"simple-text-auth", "no-auth"}, Arg(args, 2))) <= 1
                    /\ Cardinality(Accepting({"in", "out"}, Arg(args, 2))) <= 1
              /\ ~(addresses /\ groups)
              /\ ~(addresses /\ vrrp)
              /\ ~(groups /\ vrrp)]_vars

(***************************************************************************)
(* switch_configuration.py: Port.reset, and SpecPort, the assignments to   *)
(* the fields of a port followed by reset().                               *)
(***************************************************************************)
\* Port.reset()
reset(port) ==
    [port EXCEPT !.description = None,
                 !.mode = None,
                 !.access_vlan = None,
                 !.trunk_vlans = None,
                 !.trunk_native_vlan = None,
                 !.shutdown = None,
                 !.vrf = None,
                 !.speed = None,
                 !.auto_negotiation = None,
                 !.aggregation_membership = None,
                 !.vendor_specific = {}]

\* a value that a command processor gives to each field of a port
Configured ==
    [description |-> Some("uplink"),
     mode |-> Some("trunk"),
     access_vlan |-> Some(10),
     trunk_vlans |-> Some(<<10, 20>>),
     trunk_native_vlan |-> Some(10),
     trunk_encapsulation_mode |-> Some("dot1q"),
     shutdown |-> Some(TRUE),
     vrf |-> Some(VRF("DEFAULT-LAN")),
     speed |-> Some("1000"),
     auto_negotiation |-> Some(TRUE),
     aggregation_membership |-> Some("port-channel 1"),
     vendor_specific |-> {<<"has-internet-protocol", TRUE>>}]

\* port.<field> = <value>
SetField(p, field) ==
    /\ ports[p][field] # Configured[field]
    /\ ports' = [ports EXCEPT ![p][field] = Configured[field]]
    /\ out' = <<>>
    /\ cmd' = [op |-> "set", session |-> "", port |-> p, args |-> <<field>>, raised |-> ""]
    /\ UNCHANGED <<vlans, vrfs, heap, mode, ncmds>>

\* port.reset()
Reset(p) ==
    /\ ports' = [ports EXCEPT ![p] = reset(ports[p])]
    /\ out' = <<>>
    /\ cmd' = [op |-> "reset", session |-> "", port |-> p, args |-> <<>>, raised |-> ""]
    /\ UNCHANGED <<vlans, vrfs, heap, mode, ncmds>>

InitPort ==
    /\ ports = <<[Port("ethernet 1/1") EXCEPT !.switch_configuration = Some(Switch)]>>
    /\ vlans = <<>>
    /\ vrfs = <<VRF("DEFAULT-LAN")>>
    /\ heap = <<>>
    /\ mode = [s \in Sessions |-> VifMode(0)]
    /\ out = <<>>
    /\ cmd = [op |-> "init", session |-> "", port |-> 0, args |-> <<>>, raised |-> ""]
    /\ ncmds = 0

NextPort ==
    \/ \E p \in 1 .. Len(ports), field \in DOMAIN Configured : SetField(p, field)
    \/ \E p \in 1 .. Len(ports) : Reset(p)

SpecPort == InitPort /\ [][NextPort]_vars

(***************************************************************************)
(* C16. Port.reset() clears all mutable fields except identity: after      *)
(* reset() on a port in any state, description, mode, access VLAN, trunk   *)
(* VLANs, trunk native VLAN, trunk encapsulation mode, shutdown, vrf,      *)
(* speed, auto-negotiation, aggregation membership and the vendor-specific *)
(* mapping have the values the constructor gives them, and the name is     *)
(* unchanged.                                                              *)
(***************************************************************************)
C16_ResetClearsAllButName ==
    [][cmd'.op = "reset"
       => LET p == cmd'.port
          IN  /\ \A field \in DOMAIN Configured :
                    ports'[p][field] = Port(ports[p].name)[field]
              /\ ports'[p].name = ports[p].name]_vars

(***************************************************************************)
(* SpecSessions: two sessions on one switch configuration, each with its   *)
(* own mode, each command line one atomic step, in any interleaving; the   *)
(* commands are the vrid commands, exit and the change of port.            *)
(***************************************************************************)
TwoSessions == {"s1", "s2"}

InitSessions ==
    /\ ports = <<VlanPort("1", "ve1"), VlanPort("2", "ve2")>>
    /\ vlans = <<>>
    /\ vrfs = <<VRF("DEFAULT-LAN")>>
    /\ heap = <<>>
    /\ mode = [s \in TwoSessions |-> VifMode(1)]
    /\ out = <<>>
    /\ cmd = [op |-> "init", session |-> "", port |-> 0, args |-> <<>>, raised |-> ""]
    /\ ncmds = 0

NextSessions ==
    \E s \in TwoSessions :
        \/ \E g \in Groups : DoIp(s, <<"vrrp-extended", "vrid", g>>) /\ UNCHANGED ncmds
        \/ \E g \in Groups : DoNoIp(s, <<"vrrp-extended", "vrid", g>>) /\ UNCHANGED ncmds
        \/ Exit(s) /\ UNCHANGED ncmds
        \/ \E p \in 1 .. Len(ports) : Interface(s, p) /\ UNCHANGED ncmds

SpecSessions == InitSessions /\ [][NextSessions]_vars

(***************************************************************************)
(* C20. With two sessions sharing one switch configuration, under every    *)
(* interleaving of their commands: whenever a session is in the VRRP       *)
(* sub-mode for group g of port P, the object it edits is the member with  *)
(* id g of P's VRRP list; so no session edits a group that another         *)
(* session's `no ip vrrp-extended vrid g` has detached, and two sessions   *)
(* in the sub-mode for the same port and id edit the same object.          *)
(***************************************************************************)
C20_SessionEditsListedGroup ==
    /\ \A s \in DOMAIN mode :
          mode[s].proc = "vrrp"
          => LET port == ports[mode[s].port]
                 vrrp == mode[s].vrrp[1]
                 member == get_vrrp_group(port, vrrp.group_id)
             IN  member # 0 /\ port.vrrps[member] = vrrp
    /\ \A s, t \in DOMAIN mode :
          (/\ mode[s].proc = "vrrp"
           /\ mode[t].proc = "vrrp"
           /\ mode[s].port = mode[t].port
           /\ mode[s].vrrp[1].group_id = mode[t].vrrp[1].group_id)
          => mode[s].vrrp = mode[t].vrrp

====
